---------------------------- MODULE Spec2Model ----------------------------
(***************************************************************************)
(* TripleManager of node/src/protocol/triple.rs: the pool of completed     *)
(* Beaver triples, the ongoing generators and the queue of ids this node   *)
(* initiated, under generate / take / take_mine_twice / get_or_generate /  *)
(* poke.  The cait-sith protocol object is an opaque driver: a queue of    *)
(* actions it will emit on the next calls of its poke(), Wait when empty.  *)
(***************************************************************************)
EXTENDS Integers, Sequences, FiniteSets, TLC

\* ------------------------------------------------------------------ bounds
NumIds == 2
NumParticipants == 3
MaxMine == 3
MaxPending == 2
MaxEpochChanges == 1
TripleTarget == 2
NumNodes == 2

\* TripleId (u64): the ids rand::random() and inbound messages can name.
TripleId == 1 .. NumIds

\* ------------------------------------------------------- manager constants
\* participants: Vec<Participant>, in vector order.
participants == [i \in 1 .. NumParticipants |-> i]
me == 1

\* The epoch the first manager is constructed with.
InitialEpoch == 123

VARIABLES
    triples,     \* HashMap<TripleId, Triple>: completed unspent triples
    generators,  \* HashMap<TripleId, TripleGenerator>: ongoing protocols
    mine,        \* VecDeque<TripleId>: ids this node initiated, completed
    threshold,   \* usize, fixed at construction
    epoch,       \* u64, fixed at construction
    panicked,    \* an unwrap() of None has unwound the calling task
    last,        \* the most recent call: its name, argument and result
    nodes,       \* the managers of the nodes that run the generations together
    network      \* messages in flight between those nodes

vars == <<triples, generators, mine, threshold, epoch, panicked, last, nodes, network>>

\* ----------------------------------------------------------------- helpers
Range(s) == {s[i] : i \in 1 .. Len(s)}

Count(s, x) == Cardinality({i \in 1 .. Len(s) : s[i] = x})

\* HashMap::insert: adds the key or replaces the value it maps to.
MapInsert(m, k, v) == [x \in (DOMAIN m) \cup {k} |-> IF x = k THEN v ELSE m[x]]

\* HashMap::remove
MapRemove(m, k) == [x \in (DOMAIN m) \ {k} |-> m[x]]

EmptyMap == [x \in {} |-> 0]

\* ------------------------------------------------------ the protocol driver
\* cait_sith::protocol::Action, as a record of uniform shape (to = 0: no
\* single recipient; participants are numbered from 1).
Wait == [type |-> "Wait", to |-> 0, data |-> 0]
SendMany(d) == [type |-> "SendMany", to |-> 0, data |-> d]
SendPrivate(p, d) == [type |-> "SendPrivate", to |-> p, data |-> d]
Return(o) == [type |-> "Return", to |-> 0, data |-> o]
Fail == [type |-> "Err", to |-> 0, data |-> 0]

\* The output of a protocol run: the share of a triple this node initiated
\* (the protocol generate() built) or of one it joined (the protocol
\* get_or_generate() built).
Output(initiated) == IF initiated THEN 8 ELSE 9

\* What a driver may have ready to emit after construction or after it has
\* ingested one message: nothing, sends, and possibly its end.
Scripts(initiated) ==
    { <<>>,
      <<SendMany(1), SendPrivate(2, 2)>>,
      <<SendPrivate(2, 3), Return(Output(initiated))>>,
      <<Fail>> }

\* A driver that has its result or its error ready is finished.
Finished(protocol) ==
    \E i \in 1 .. Len(protocol) : protocol[i].type \in {"Return", "Err"}

\* Protocol::message(from, data): an unfinished driver has the actions of
\* `script` ready after those it already had.
ProtocolMessage(protocol, script) ==
    IF Finished(protocol) THEN protocol ELSE protocol \o script

\* Protocol::poke(): the next action and the driver's state after it.
ProtocolPoke(protocol) ==
    IF protocol = <<>>
    THEN [action |-> Wait, protocol |-> protocol]
    ELSE [action |-> Head(protocol), protocol |-> Tail(protocol)]

\* cait_sith::triples::generate_triple: refuses a bad participant list or
\* threshold; otherwise a fresh protocol.
generate_triple_ok(ps, p, t) ==
    /\ Len(ps) >= 2
    /\ p \in Range(ps)
    /\ t <= Len(ps)

\* ------------------------------------------------------------ the manager
Triple(id, output) == [id |-> id, output |-> output]

TripleGenerator(protocol, is_mine) == [protocol |-> protocol, mine |-> is_mine]

len == Cardinality(DOMAIN triples)

my_len == Len(mine)

potential_len == Cardinality(DOMAIN triples) + Cardinality(DOMAIN generators)

\* The nodes that run the generations together, and the manager of one of
\* them after TripleManager::new.
Nodes == 1 .. NumNodes

Node == [triples |-> EmptyMap, generators |-> EmptyMap, mine |-> <<>>]

Called(op, id, ret) ==
    [op |-> op, id |-> id, ret |-> ret, out |-> <<>>, msgs |-> <<>>,
     done |-> {}, failed |-> {}, acts |-> <<>>]

Init ==
    /\ triples = EmptyMap
    /\ generators = EmptyMap
    /\ mine = <<>>
    /\ threshold \in {2, NumParticipants + 1}
    /\ epoch = InitialEpoch
    /\ panicked = FALSE
    /\ last = Called("new", 0, "Ok")
    /\ nodes = [n \in Nodes |-> Node]
    /\ network = {}

\* generate() that registers the id before the protocol is constructed and
\* leaves the entry behind when construction fails.
generate_registers_first(gens, id, protocol) ==
    [generators |-> MapInsert(gens, id, TripleGenerator(protocol, TRUE)),
     ret |-> IF generate_triple_ok(participants, me, threshold) THEN "Ok" ELSE "Err"]

\* generate(): a random id, a new protocol, inserted with mine = true.
generate(gens, id, protocol) ==
    IF generate_triple_ok(participants, me, threshold)
    THEN [generators |-> MapInsert(gens, id, TripleGenerator(protocol, TRUE)),
          ret |-> "Ok"]
    ELSE [generators |-> gens, ret |-> "Err"]

Generate ==
    /\ ~panicked
    /\ Len(mine) + Cardinality({g \in DOMAIN generators : generators[g].mine}) < MaxMine
    /\ \E id \in TripleId, protocol \in Scripts(TRUE) :
         LET r == generate(generators, id, protocol) IN
         /\ generators' = r.generators
         /\ last' = Called("generate", id, r.ret)
    /\ UNCHANGED <<triples, mine, threshold, epoch, panicked, nodes, network>>

\* take(id) that hands the triple out and leaves it in the pool.
take_keeps(ts, id) ==
    IF id \in DOMAIN ts
    THEN [triples |-> ts, ret |-> "Some", out |-> <<ts[id]>>]
    ELSE [triples |-> ts, ret |-> "None", out |-> <<>>]

\* take(id): HashMap::remove on the completed pool; mine is not touched.
take(ts, id) ==
    IF id \in DOMAIN ts
    THEN [triples |-> MapRemove(ts, id), ret |-> "Some", out |-> <<ts[id]>>]
    ELSE [triples |-> ts, ret |-> "None", out |-> <<>>]

\* take() that also cancels a generation still running under the id.
Take_cancels ==
    /\ ~panicked
    /\ \E id \in TripleId :
         LET r == take(triples, id) IN
         /\ triples' = r.triples
         /\ generators' = MapRemove(generators, id)
         /\ last' = [Called("take", id, r.ret) EXCEPT !.out = r.out]
    /\ UNCHANGED <<mine, threshold, epoch, panicked, nodes, network>>

Take ==
    /\ ~panicked
    /\ \E id \in TripleId :
         LET r == take(triples, id) IN
         /\ triples' = r.triples
         /\ last' = [Called("take", id, r.ret) EXCEPT !.out = r.out]
    /\ UNCHANGED <<generators, mine, threshold, epoch, panicked, nodes, network>>

\* take_mine_twice(): None below two queued ids; otherwise both ids are
\* popped, and both triples removed when both are in the pool.  The second
\* remove(..).unwrap() panics when the first remove took the entry away.
\* take_mine_twice() without the length test of line 111: the first
\* pop_front()? consumes a lone id before the second one returns None.
take_mine_twice_unguarded(ts, q) ==
    IF Len(q) < 2
    THEN [triples |-> ts, mine |-> <<>>, ret |-> "None", out |-> <<>>]
    ELSE LET id0 == q[1]
             id1 == q[2]
             rest == SubSeq(q, 3, Len(q))
             ts0 == MapRemove(ts, id0)
         IN  IF id0 \in DOMAIN ts /\ id1 \in DOMAIN ts
             THEN IF id1 \in DOMAIN ts0
                  THEN [triples |-> MapRemove(ts0, id1), mine |-> rest,
                        ret |-> "Some", out |-> <<ts[id0], ts0[id1]>>]
                  ELSE [triples |-> ts0, mine |-> rest,
                        ret |-> "panic", out |-> <<>>]
             ELSE [triples |-> ts, mine |-> rest, ret |-> "None", out |-> <<>>]

take_mine_twice(ts, q) ==
    IF Len(q) < 2
    THEN [triples |-> ts, mine |-> q, ret |-> "None", out |-> <<>>]
    ELSE LET id0 == q[1]
             id1 == q[2]
             rest == SubSeq(q, 3, Len(q))
             ts0 == MapRemove(ts, id0)
         IN  IF id0 \in DOMAIN ts /\ id1 \in DOMAIN ts
             THEN IF id1 \in DOMAIN ts0
                  THEN [triples |-> MapRemove(ts0, id1), mine |-> rest,
                        ret |-> "Some", out |-> <<ts[id0], ts0[id1]>>]
                  ELSE [triples |-> ts0, mine |-> rest,
                        ret |-> "panic", out |-> <<>>]
             ELSE [triples |-> ts, mine |-> rest, ret |-> "None", out |-> <<>>]

TakeMineTwice ==
    /\ ~panicked
    /\ LET r == take_mine_twice(triples, mine) IN
         /\ triples' = r.triples
         /\ mine' = r.mine
         /\ panicked' = (r.ret = "panic")
         /\ last' = [Called("take_mine_twice", 0, r.ret) EXCEPT !.out = r.out]
    /\ UNCHANGED <<generators, threshold, epoch, nodes, network>>

\* get_or_generate(id) that does not look at the completed pool first.
get_or_generate_unchecked(ts, gens, id, protocol) ==
    IF id \notin DOMAIN gens
    THEN IF generate_triple_ok(participants, me, threshold)
         THEN [generators |-> MapInsert(gens, id, TripleGenerator(protocol, FALSE)),
               ret |-> "Some"]
         ELSE [generators |-> gens, ret |-> "Err"]
    ELSE [generators |-> gens, ret |-> "Some"]

\* get_or_generate(id): None for a completed id, the existing generator for
\* a generating id, else a new generator with mine = false.
get_or_generate(ts, gens, id, protocol) ==
    IF id \in DOMAIN ts
    THEN [generators |-> gens, ret |-> "None"]
    ELSE IF id \notin DOMAIN gens
         THEN IF generate_triple_ok(participants, me, threshold)
              THEN [generators |-> MapInsert(gens, id, TripleGenerator(protocol, FALSE)),
                    ret |-> "Some"]
              ELSE [generators |-> gens, ret |-> "Err"]
         ELSE [generators |-> gens, ret |-> "Some"]

GetOrGenerate ==
    /\ ~panicked
    /\ \E id \in TripleId :
         \E protocol \in IF id \in (DOMAIN triples) \cup (DOMAIN generators)
                         THEN {<<>>}
                         ELSE Scripts(FALSE) :
            LET r == get_or_generate(triples, generators, id, protocol) IN
            /\ generators' = r.generators
            /\ last' = Called("get_or_generate", id, r.ret)
    /\ UNCHANGED <<triples, mine, threshold, epoch, panicked, nodes, network>>

\* The caller of get_or_generate(id) hands the inbound message to the
\* protocol it was given; the driver then has further actions ready.
Message ==
    /\ ~panicked
    /\ last.op = "get_or_generate"
    /\ last.ret = "Some"
    /\ last.id \in DOMAIN generators
    /\ \E script \in Scripts(generators[last.id].mine) :
         /\ Len(generators[last.id].protocol) + Len(script) <= MaxPending
         /\ generators' = [generators EXCEPT
                ![last.id].protocol = ProtocolMessage(generators[last.id].protocol, script)]
    /\ last' = Called("message", last.id, "Ok")
    /\ UNCHANGED <<triples, mine, threshold, epoch, panicked, nodes, network>>

\* ------------------------------------------------------------------- poke
TripleMessage(id, data) == [id |-> id, epoch |-> epoch, from |-> me, data |-> data]

\* One element of the vector poke() returns: (Participant, TripleMessage).
Outbound(p, id, data) == [to |-> p, msg |-> TripleMessage(id, data)]

\* Action::SendMany(data): one message per entry of self.participants.
SendManyMessages(id, data) ==
    [i \in 1 .. Len(participants) |-> Outbound(participants[i], id, data)]

\* SendPrivate handled like SendMany: a copy for every participant.
SendPrivateMessages_broadcast(p, id, data) == SendManyMessages(id, data)

\* Action::SendPrivate(p, data)
SendPrivateMessages(p, id, data) == <<Outbound(p, id, data)>>

\* The messages of one action put in front of those already collected.
Push_front(messages, new) == new \o messages

\* Vec::push of the messages of one action onto the vector poke() returns.
Push(messages, new) == messages \o new

\* A closure that takes one action of the driver per poke() and keeps the
\* generator without waiting for Action::Wait.
PokeGenerator_single(st, id, generator) ==
    LET step == ProtocolPoke(generator.protocol)
        action == step.action
        logged == IF action.type = "Wait"
                  THEN st
                  ELSE [st EXCEPT !.acts = Append(st.acts, [id |-> id, action |-> action])]
        next == [generator EXCEPT !.protocol = step.protocol]
    IN  CASE action.type = "Err" ->
               [st |-> [logged EXCEPT !.result = "Err",
                                    !.failed = logged.failed \cup {id}],
                retain |-> FALSE, generator |-> next]
          [] action.type = "Wait" ->
               [st |-> logged, retain |-> TRUE, generator |-> next]
          [] action.type = "SendMany" ->
               [st |-> [logged EXCEPT !.messages =
                          Push(logged.messages, SendManyMessages(id, action.data))],
                retain |-> TRUE, generator |-> next]
          [] action.type = "SendPrivate" ->
               [st |-> [logged EXCEPT !.messages =
                          Push(logged.messages,
                               SendPrivateMessages(action.to, id, action.data))],
                retain |-> TRUE, generator |-> next]
          [] action.type = "Return" ->
               [st |-> [logged EXCEPT
                          !.triples = MapInsert(logged.triples, id, Triple(id, action.data)),
                          !.mine = IF generator.mine
                                   THEN Append(logged.mine, id)
                                   ELSE logged.mine,
                          !.done = logged.done \cup {id}],
                retain |-> FALSE, generator |-> next]

\* The closure given to generators.retain, for one generator: poke its
\* protocol until it waits (retain), returns (insert the triple, queue the
\* id when mine, drop) or fails (record the error, drop).
RECURSIVE PokeGenerator(_, _, _)
PokeGenerator(st, id, generator) ==
    LET step == ProtocolPoke(generator.protocol)
        action == step.action
        logged == IF action.type = "Wait"
                  THEN st
                  ELSE [st EXCEPT !.acts = Append(st.acts, [id |-> id, action |-> action])]
        next == [generator EXCEPT !.protocol = step.protocol]
    IN  CASE action.type = "Err" ->
               [st |-> [logged EXCEPT !.result = "Err",
                                    !.failed = logged.failed \cup {id}],
                retain |-> FALSE, generator |-> next]
          [] action.type = "Wait" ->
               [st |-> logged, retain |-> TRUE, generator |-> next]
          [] action.type = "SendMany" ->
               PokeGenerator(
                   [logged EXCEPT !.messages =
                        Push(logged.messages, SendManyMessages(id, action.data))],
                   id, next)
          [] action.type = "SendPrivate" ->
               PokeGenerator(
                   [logged EXCEPT !.messages =
                        Push(logged.messages,
                             SendPrivateMessages(action.to, id, action.data))],
                   id, next)
          [] action.type = "Return" ->
               [st |-> [logged EXCEPT
                          !.triples = MapInsert(logged.triples, id, Triple(id, action.data)),
                          !.mine = IF generator.mine
                                   THEN Append(logged.mine, id)
                                   ELSE logged.mine,
                          !.done = logged.done \cup {id}],
                retain |-> FALSE, generator |-> next]

\* A retain that gives up at the first generator that fails and leaves the
\* generators after it unpoked.
RECURSIVE Retain_until_error(_, _, _)
Retain_until_error(st, gens, order) ==
    IF order = <<>> \/ st.result = "Err"
    THEN [st |-> st, generators |-> gens]
    ELSE LET id == Head(order)
             r == PokeGenerator(st, id, gens[id])
         IN  Retain_until_error(r.st,
                                IF r.retain
                                THEN MapInsert(gens, id, r.generator)
                                ELSE MapRemove(gens, id),
                                Tail(order))

\* HashMap::retain over the generators, visited in the order `order`.
RECURSIVE Retain(_, _, _)
Retain(st, gens, order) ==
    IF order = <<>>
    THEN [st |-> st, generators |-> gens]
    ELSE LET id == Head(order)
             r == PokeGenerator(st, id, gens[id])
         IN  Retain(r.st,
                    IF r.retain
                    THEN MapInsert(gens, id, r.generator)
                    ELSE MapRemove(gens, id),
                    Tail(order))

\* The orders in which a HashMap may visit its keys.
Orders(S) ==
    {o \in [1 .. Cardinality(S) -> S] :
        \A i, j \in 1 .. Cardinality(S) : i # j => o[i] # o[j]}

\* poke(): result.map(|_| messages): the messages when no generator failed.
poke(ts, gens, q, order) ==
    LET r == Retain([triples |-> ts, mine |-> q, messages |-> <<>>,
                     result |-> "Ok", done |-> {}, failed |-> {},
                     acts |-> <<>>],
                    gens, order)
    IN  [triples |-> r.st.triples, mine |-> r.st.mine,
         generators |-> r.generators,
         ret |-> r.st.result,
         msgs |-> IF r.st.result = "Ok" THEN r.st.messages ELSE <<>>,
         done |-> r.st.done, failed |-> r.st.failed, acts |-> r.st.acts]

Poke ==
    /\ ~panicked
    /\ \E order \in Orders(DOMAIN generators) :
         LET r == poke(triples, generators, mine, order) IN
         /\ triples' = r.triples
         /\ mine' = r.mine
         /\ generators' = r.generators
         /\ last' = [Called("poke", 0, r.ret) EXCEPT
                        !.msgs = r.msgs, !.done = r.done,
                        !.failed = r.failed, !.acts = r.acts]
    /\ UNCHANGED <<threshold, epoch, panicked, nodes, network>>

Next ==
    \/ Generate
    \/ Take
    \/ TakeMineTwice
    \/ GetOrGenerate
    \/ Message
    \/ Poke

Spec == Init /\ [][Next]_vars

\* A reshare that raises the epoch of the manager in place and keeps its pool,
\* generators and queue.
EpochChange_keeps ==
    /\ ~panicked
    /\ epoch < InitialEpoch + MaxEpochChanges
    /\ epoch' = epoch + 1
    /\ threshold' \in {2, NumParticipants + 1}
    /\ last' = Called("new", 0, "Ok")
    /\ UNCHANGED <<triples, generators, mine, panicked, nodes, network>>

\* A reshare: the node replaces its manager by TripleManager::new at the next
\* epoch, which starts with an empty pool, no generators and an empty queue.
EpochChange ==
    /\ ~panicked
    /\ epoch < InitialEpoch + MaxEpochChanges
    /\ epoch' = epoch + 1
    /\ triples' = EmptyMap
    /\ generators' = EmptyMap
    /\ mine' = <<>>
    /\ threshold' \in {2, NumParticipants + 1}
    /\ last' = Called("new", 0, "Ok")
    /\ UNCHANGED <<panicked, nodes, network>>

NextEpochs ==
    \/ Next
    \/ EpochChange

SpecEpochs == Init /\ [][NextEpochs]_vars

\* A tick that calls generate() without looking at potential_len().
SupplyTick_unchecked == Generate

\* The supply controller's tick, the only caller of generate(): it starts a
\* triple generation when potential_len() is below the target.
SupplyTick ==
    /\ potential_len < TripleTarget
    /\ Generate

NextSupply ==
    \/ SupplyTick
    \/ Take
    \/ TakeMineTwice
    \/ GetOrGenerate
    \/ Message
    \/ Poke

SpecSupply == Init /\ [][NextSupply]_vars

\* ------------------------------------------------------------ several nodes
\* The drivers of the generations the nodes run together: one tells every
\* participant of its generation and then returns its triple, one fails.
NodeScripts(initiated) ==
    { <<SendMany(1), Return(Output(initiated))>>, <<Fail>> }

\* generate() on node n.
NodeGenerate(n) ==
    LET node == nodes[n] IN
    /\ Len(node.mine)
         + Cardinality({g \in DOMAIN node.generators : node.generators[g].mine}) < MaxMine
    /\ \E id \in TripleId, protocol \in NodeScripts(TRUE) :
         nodes' = [nodes EXCEPT
                     ![n].generators = generate(node.generators, id, protocol).generators]
    /\ UNCHANGED <<triples, generators, mine, threshold, epoch, panicked, last, network>>

\* A message in flight reaches node n, whose router calls get_or_generate(id).
NodeDeliver(n) ==
    /\ \E m \in network :
         LET node == nodes[n]
             known == m.id \in (DOMAIN node.triples) \cup (DOMAIN node.generators)
         IN
         /\ m.to = n
         /\ \E protocol \in IF known THEN {<<>>} ELSE NodeScripts(FALSE) :
               nodes' = [nodes EXCEPT
                           ![n].generators =
                               get_or_generate(node.triples, node.generators,
                                               m.id, protocol).generators]
         /\ network' = network \ {m}
    /\ UNCHANGED <<triples, generators, mine, threshold, epoch, panicked, last>>

\* poke() on node n; the messages it returns for the other nodes are put on
\* the network.
NodePoke(n) ==
    /\ \E order \in Orders(DOMAIN nodes[n].generators) :
         LET r == poke(nodes[n].triples, nodes[n].generators, nodes[n].mine, order) IN
         /\ nodes' = [nodes EXCEPT
                        ![n].triples = r.triples,
                        ![n].generators = r.generators,
                        ![n].mine = r.mine]
         /\ network' = network \cup
                {[to |-> r.msgs[i].to, id |-> r.msgs[i].msg.id] :
                    i \in {j \in 1 .. Len(r.msgs) :
                             r.msgs[j].to \in Nodes \ {n}}}
    /\ UNCHANGED <<triples, generators, mine, threshold, epoch, panicked, last>>

NextNodes ==
    \E n \in Nodes :
       \/ NodeGenerate(n)
       \/ NodeDeliver(n)
       \/ NodePoke(n)

SpecNodes == Init /\ [][NextNodes]_vars

\* ------------------------------------------------------------------ claims

\* C1: whenever take(id) or take_mine_twice() returns triples, their ids are
\* gone from the completed pool when the call returns: len() has dropped by
\* the number of triples returned and a repeated take(id) returns None.
C1_NoReuse ==
    [][ /\ (last'.op = "take" /\ last'.ret = "Some") =>
             /\ last'.id \notin DOMAIN triples'
             /\ Cardinality(DOMAIN triples') = Cardinality(DOMAIN triples) - 1
             /\ take(triples', last'.id).ret = "None"
        /\ (last'.op = "take_mine_twice" /\ last'.ret = "Some") =>
             /\ Len(last'.out) = 2
             /\ Cardinality(DOMAIN triples') = Cardinality(DOMAIN triples) - 2
             /\ \A i \in 1 .. 2 :
                  /\ last'.out[i].id \notin DOMAIN triples'
                  /\ take(triples', last'.out[i].id).ret = "None"
      ]_vars

C1_Witness ==
    /\ last.op = "take"
    /\ last.ret = "Some"
    /\ Len(last.out) = 1
    /\ last.out[1].id = last.id

\* C2: after take(i) returns, id i is in neither the completed pool nor the
\* mine queue, so my_len() no longer counts it.
C2_TakeClearsMine ==
    last.op = "take" =>
        /\ last.id \notin DOMAIN triples
        /\ last.id \notin Range(mine)

\* C3: take_mine_twice() either returns two triples and removes exactly
\* those two from the pool, or returns None and removes none; it never
\* removes exactly one.
C3_AllOrNothing ==
    [][ last'.op = "take_mine_twice" =>
          \/ /\ last'.ret = "Some"
             /\ Len(last'.out) = 2
             /\ (DOMAIN triples) \ (DOMAIN triples') = {last'.out[1].id, last'.out[2].id}
             /\ Cardinality(DOMAIN triples') = Cardinality(DOMAIN triples) - 2
          \/ /\ last'.ret = "None"
             /\ triples' = triples
      ]_vars

\* C4: no triple id is at once in the completed pool and in the set of
\* ongoing generators.
C4_AtMostOnce == (DOMAIN triples) \cap (DOMAIN generators) = {}

\* C5: for each broadcast action a driver emitted during poke(), the returned
\* vector holds a message with that payload for every participant other than
\* this node, and no returned message is addressed to this node.
C5_BroadcastExceptSelf ==
    (last.op = "poke" /\ last.ret = "Ok") =>
        /\ \A k \in 1 .. Len(last.acts) :
             last.acts[k].action.type = "SendMany" =>
                \A p \in Range(participants) \ {me} :
                   \E i \in 1 .. Len(last.msgs) :
                       last.msgs[i] = Outbound(p, last.acts[k].id,
                                               last.acts[k].action.data)
        /\ \A i \in 1 .. Len(last.msgs) : last.msgs[i].to # me

\* C6: when generators started by generate() report Done during poke(), then
\* after poke() each such id is in the completed pool and in the mine queue
\* and no longer in generators, and len() and my_len() have grown by exactly
\* one per such generator.
C6_MineDone ==
    [][ (last'.op = "poke" /\ \A id \in last'.done : generators[id].mine) =>
          /\ \A id \in last'.done :
               /\ id \in DOMAIN triples'
               /\ id \in Range(mine')
               /\ id \notin DOMAIN generators'
          /\ Cardinality(DOMAIN triples') =
                 Cardinality(DOMAIN triples) + Cardinality(last'.done)
          /\ Len(mine') = Len(mine) + Cardinality(last'.done)
      ]_vars

\* C7: a triple whose generator get_or_generate() created is never in the
\* mine queue: when such generators complete, len() grows by one for each,
\* my_len() is unchanged and the id is not queued as mine.
C7_ForeignNeverMine ==
    [][ (last'.op = "poke" /\ \A id \in last'.done : ~generators[id].mine) =>
          /\ \A id \in last'.done : id \notin Range(mine')
          /\ Cardinality(DOMAIN triples') =
                 Cardinality(DOMAIN triples) + Cardinality(last'.done)
          /\ Len(mine') = Len(mine)
      ]_vars

\* C8: a generator whose driver fails during poke() is removed without
\* anything for its id reaching the completed pool or the mine queue, poke()
\* reports the error, and a later get_or_generate(id) starts a new generator.
C8_FailedDropped ==
    [][ last'.op = "poke" =>
          \A id \in last'.failed :
             /\ id \notin DOMAIN generators'
             /\ (id \in DOMAIN triples') = (id \in DOMAIN triples)
             /\ Count(mine', id) = Count(mine, id)
             /\ last'.ret = "Err"
             /\ LET r == get_or_generate(triples', generators', id, <<>>) IN
                  /\ r.ret = "Some"
                  /\ id \in DOMAIN r.generators
                  /\ r.generators[id] = TripleGenerator(<<>>, FALSE)
      ]_vars

\* C9: a successful generate() adds exactly one generator, mine = true, under
\* an id that was in neither the completed pool nor generators; no existing
\* generator is replaced or discarded.
C9_GenerateFresh ==
    [][ (last'.op = "generate" /\ last'.ret = "Ok") =>
          /\ last'.id \notin DOMAIN triples
          /\ last'.id \notin DOMAIN generators
          /\ last'.id \in DOMAIN generators'
          /\ generators'[last'.id].mine
          /\ \A g \in DOMAIN generators :
               g \in DOMAIN generators' /\ generators'[g] = generators[g]
          /\ Cardinality(DOMAIN generators') = Cardinality(DOMAIN generators) + 1
      ]_vars

\* C10: get_or_generate(id) for an id in the completed pool returns None and
\* leaves the completed pool, generators and the mine queue unchanged.
C10_CompletedIsNone ==
    [][ (last'.op = "get_or_generate" /\ last'.id \in DOMAIN triples) =>
          /\ last'.ret = "None"
          /\ triples' = triples
          /\ generators' = generators
          /\ mine' = mine
      ]_vars

C10_Witness ==
    /\ last.op = "get_or_generate"
    /\ last.id \in DOMAIN triples
    /\ last.ret = "None"
    /\ last.id \notin DOMAIN generators

\* C11: get_or_generate(id) for an id that is neither completed nor generating
\* creates exactly one generator, with mine = false, and returns it; for an id
\* already generating it returns that generator without resetting it and
\* without changing its mine flag or adding a second one.
C11_GetOrGenerateIdempotent ==
    [][ (last'.op = "get_or_generate" /\ last'.ret # "Err") =>
          /\ (last'.id \notin DOMAIN triples /\ last'.id \notin DOMAIN generators) =>
                /\ last'.ret = "Some"
                /\ generators' = MapInsert(generators, last'.id,
                                           generators'[last'.id])
                /\ ~generators'[last'.id].mine
          /\ last'.id \in DOMAIN generators =>
                /\ last'.ret = "Some"
                /\ generators' = generators
      ]_vars

\* C12: take(id) for an id that is not in the completed pool, including one
\* whose generator is still running, returns None and leaves len(), my_len(),
\* potential_len() and that generator unchanged.
C12_TakeAbsentIsNone ==
    [][ (last'.op = "take" /\ last'.id \notin DOMAIN triples) =>
          /\ last'.ret = "None"
          /\ last'.out = <<>>
          /\ len' = len
          /\ my_len' = my_len
          /\ potential_len' = potential_len
          /\ triples' = triples
          /\ mine' = mine
          /\ generators' = generators
      ]_vars

C12_Witness ==
    /\ last.op = "take"
    /\ last.ret = "None"
    /\ last.id \in DOMAIN generators
    /\ last.id \notin DOMAIN triples
    /\ generators[last.id].protocol # <<>>

\* C13: the mine queue is first-in first-out in completion order: poke() queues
\* the ids of locally initiated triples at the tail as they complete, and when
\* take_mine_twice() returns Some((t0, t1)) these are the triples of the two
\* ids at the head of the queue, t0 of the older entry, both of them triples
\* this node initiated.
C13_MineFifo ==
    [][ /\ last'.op = "poke" =>
              /\ Len(mine') >= Len(mine)
              /\ SubSeq(mine', 1, Len(mine)) = mine
              /\ Range(SubSeq(mine', Len(mine) + 1, Len(mine'))) \subseteq last'.done
        /\ (last'.op = "take_mine_twice" /\ last'.ret = "Some") =>
              /\ Len(last'.out) = 2
              /\ last'.out[1].id = mine[1]
              /\ last'.out[2].id = mine[2]
              /\ mine' = SubSeq(mine, 3, Len(mine))
              /\ \A i \in 1 .. 2 : last'.out[i].output = Output(TRUE)
      ]_vars

\* C14: when take_mine_twice() pops two ids of which at least one is not in
\* the completed pool, it returns None, puts neither id back in the mine queue
\* (my_len() ends 2 lower) and leaves the pool as it was; neither id is in the
\* queue afterwards for a later take_mine_twice() to pop.
C14_GoneIdsDropped ==
    [][ ( /\ last'.op = "take_mine_twice"
          /\ Len(mine) >= 2
          /\ (mine[1] \notin DOMAIN triples \/ mine[2] \notin DOMAIN triples) ) =>
          /\ last'.ret = "None"
          /\ my_len' = my_len - 2
          /\ mine' = SubSeq(mine, 3, Len(mine))
          /\ triples' = triples
          /\ mine[1] \notin Range(mine')
          /\ mine[2] \notin Range(mine')
      ]_vars

\* C15: with fewer than two ids in the mine queue take_mine_twice() returns
\* None and consumes nothing: the completed pool, the mine queue (a single
\* leftover id included) and generators are unchanged.
C15_ShortQueueUntouched ==
    [][ (last'.op = "take_mine_twice" /\ Len(mine) < 2) =>
          /\ last'.ret = "None"
          /\ last'.out = <<>>
          /\ triples' = triples
          /\ mine' = mine
          /\ generators' = generators
          /\ ~panicked'
      ]_vars

C15_Witness ==
    /\ last.op = "take_mine_twice"
    /\ last.ret = "None"
    /\ Len(mine) = 1
    /\ mine[1] \in DOMAIN triples

\* C16: potential_len() is len() plus the number of ongoing generators, and a
\* generator that completes moves one unit from the generators to the pool
\* without changing the sum: a poke() in which no generator fails leaves
\* potential_len() unchanged, and when every ongoing generator completes in
\* it, len() becomes the potential_len() observed before.
C16_PotentialLen ==
    [][ /\ potential_len' = len' + Cardinality(DOMAIN generators')
        /\ (last'.op = "poke" /\ last'.failed = {}) =>
              potential_len' = potential_len
        /\ (last'.op = "poke" /\ last'.done = DOMAIN generators) =>
              len' = potential_len
      ]_vars

\* C17: every message poke() returns carries the id of the generator that
\* emitted it, the manager's epoch and this node as sender, and a
\* SendPrivate(peer, payload) action yields exactly one message, addressed to
\* that peer only.
C17_MessageFields ==
    (last.op = "poke" /\ last.ret = "Ok") =>
        /\ \A i \in 1 .. Len(last.msgs) :
             /\ last.msgs[i].msg.epoch = epoch
             /\ last.msgs[i].msg.from = me
             /\ \E k \in 1 .. Len(last.acts) :
                  /\ last.acts[k].action.type \in {"SendMany", "SendPrivate"}
                  /\ last.acts[k].id = last.msgs[i].msg.id
                  /\ last.acts[k].action.data = last.msgs[i].msg.data
        /\ \A k \in 1 .. Len(last.acts) :
             last.acts[k].action.type = "SendPrivate" =>
                LET sent == {i \in 1 .. Len(last.msgs) :
                                /\ last.msgs[i].msg.id = last.acts[k].id
                                /\ last.msgs[i].msg.data = last.acts[k].action.data}
                    same == {j \in 1 .. Len(last.acts) : last.acts[j] = last.acts[k]}
                IN  /\ Cardinality(sent) = Cardinality(same)
                    /\ \A i \in sent : last.msgs[i].to = last.acts[k].action.to

C17_Witness ==
    /\ last.op = "poke"
    /\ last.ret = "Ok"
    /\ \E k \in 1 .. Len(last.acts) : last.acts[k].action.type = "SendPrivate"
    /\ \E i \in 1 .. Len(last.msgs) : last.msgs[i].to # me /\ last.msgs[i].msg.id = 2

\* C18: for any one generator and any one receiver, the messages poke()
\* returns appear in the order in which the generator's driver emitted the
\* send actions: within one poke() they follow the driver's queue of ready
\* actions, and poke() leaves nothing of that queue behind, so what a later
\* poke() returns was emitted later.
C18_PerReceiverOrder ==
    [][ (last'.op = "poke" /\ last'.ret = "Ok") =>
          \A id \in DOMAIN generators :
             /\ \A p \in Range(participants) :
                  LET Addressed(a) ==
                          \/ a.type = "SendMany"
                          \/ a.type = "SendPrivate" /\ a.to = p
                      Received(m) == m.msg.id = id /\ m.to = p
                      emitted == SelectSeq(generators[id].protocol, Addressed)
                      returned == SelectSeq(last'.msgs, Received)
                  IN  /\ Len(returned) = Len(emitted)
                      /\ \A i \in 1 .. Len(emitted) :
                           returned[i].msg.data = emitted[i].data
             /\ id \in DOMAIN generators' => generators'[id].protocol = <<>>
      ]_vars

C18_Witness ==
    /\ last.op = "poke"
    /\ last.ret = "Ok"
    /\ \E i, j \in 1 .. Len(last.msgs) :
          /\ i < j
          /\ last.msgs[i].to = last.msgs[j].to
          /\ last.msgs[i].msg.id = last.msgs[j].msg.id
          /\ last.msgs[i].msg.data # last.msgs[j].msg.data
    /\ Cardinality({last.msgs[i].msg.id : i \in 1 .. Len(last.msgs)}) = 2

\* C19: poke() steps every generator until it reports Wait, Done or a failure,
\* also the generators visited after one that failed: every generator is
\* afterwards either done, failed (both removed) or kept, all its ready actions
\* were taken, and every generator still in generators last reported Wait.
C19_EveryGeneratorStepped ==
    [][ last'.op = "poke" =>
          /\ \A id \in DOMAIN generators :
               LET Own(a) == a.id = id
                   taken == SelectSeq(last'.acts, Own)
               IN  /\ Len(taken) = Len(generators[id].protocol)
                   /\ \A k \in 1 .. Len(taken) :
                        taken[k].action = generators[id].protocol[k]
                   /\ \/ id \in last'.done /\ id \notin DOMAIN generators'
                      \/ id \in last'.failed /\ id \notin DOMAIN generators'
                      \/ /\ id \in DOMAIN generators'
                         /\ id \notin last'.done \cup last'.failed
          /\ \A id \in DOMAIN generators' :
               /\ id \in DOMAIN generators
               /\ ProtocolPoke(generators'[id].protocol).action = Wait
      ]_vars

C19_Witness ==
    /\ last.op = "poke"
    /\ last.ret = "Err"
    /\ \E j, k \in 1 .. Len(last.acts) :
          /\ j < k
          /\ last.acts[j].action.type = "Err"
          /\ last.acts[k].id # last.acts[j].id

\* C20: once the manager operates at a new epoch, len(), my_len() and
\* potential_len() are 0 and no triple or generator created under the old
\* epoch can be taken or poked: take() of every old id and take_mine_twice()
\* return None and poke() has no generator to step.
C20_EpochChangeDropsAll ==
    [][ epoch' # epoch =>
          /\ len' = 0
          /\ my_len' = 0
          /\ potential_len' = 0
          /\ \A id \in DOMAIN triples : take(triples', id).ret = "None"
          /\ take_mine_twice(triples', mine').ret = "None"
          /\ \A id \in DOMAIN generators : id \notin DOMAIN generators'
          /\ \A order \in Orders(DOMAIN generators') :
               LET r == poke(triples', generators', mine', order) IN
               r.acts = <<>> /\ r.msgs = <<>> /\ r.triples = triples'
      ]_vars

C20_Witness ==
    /\ epoch = InitialEpoch + 1
    /\ last.op = "new"
    /\ len = 0
    /\ my_len = 0
    /\ potential_len = 0

\* C21: with the supply controller as the only caller, generate() starts no
\* generator when potential_len() is at or above the target, so a generate()
\* never raises potential_len() above the target.
C21_SupplyBound ==
    [][ (last'.op = "generate" /\ last'.ret = "Ok") =>
          /\ potential_len < TripleTarget
          /\ potential_len' <= TripleTarget
      ]_vars

C21_Witness ==
    /\ last.op = "generate"
    /\ last.ret = "Ok"
    /\ last.id \in DOMAIN generators
    /\ potential_len = TripleTarget

\* C22: when constructing the protocol fails with an initialization error in
\* generate(), or in get_or_generate() for an unknown id, the error is returned
\* and the manager is unchanged: no generator entry exists for the id, and the
\* completed pool, generators and the mine queue are as before.
C22_InitErrorChangesNothing ==
    [][ /\ (last'.op \in {"generate", "get_or_generate"} /\ last'.ret = "Err") =>
              /\ generators' = generators
              /\ triples' = triples
              /\ mine' = mine
              /\ last'.id \notin DOMAIN generators'
        /\ LET unknown == /\ last'.op = "get_or_generate"
                           /\ last'.id \notin DOMAIN triples
                           /\ last'.id \notin DOMAIN generators
           IN  ( /\ last'.op = "generate" \/ unknown
                 /\ ~generate_triple_ok(participants, me, threshold) ) =>
                   last'.ret = "Err"
      ]_vars

C22_Witness ==
    /\ last.op \in {"generate", "get_or_generate"}
    /\ last.ret = "Err"
    /\ last.id \in TripleId
    /\ potential_len = 0
    /\ my_len = 0

\* C23: once a generator for id i has completed, a later get_or_generate(i)
\* returns None and starts no generator, both while triple i is in the pool
\* and after it has been taken: in particular right after take(i) handed the
\* triple out.
C23_LateMessagesDropped ==
    [][ ( /\ last'.op = "get_or_generate"
          /\ \/ last'.id \in DOMAIN triples
             \/ last.op = "take" /\ last.ret = "Some" /\ last.id = last'.id ) =>
          /\ last'.ret = "None"
          /\ generators' = generators
      ]_vars

\* C24: poke() is idempotent absent new input: a poke() that directly follows
\* a poke() that returned Ok returns Ok with an empty vector and leaves the
\* completed pool, the mine queue and generators unchanged.
C24_PokeIdempotent ==
    [][ (last.op = "poke" /\ last.ret = "Ok" /\ last'.op = "poke") =>
          /\ last'.ret = "Ok"
          /\ last'.msgs = <<>>
          /\ last'.acts = <<>>
          /\ triples' = triples
          /\ mine' = mine
          /\ generators' = generators
      ]_vars

C24_Witness ==
    /\ last.op = "poke"
    /\ last.ret = "Ok"
    /\ last.msgs = <<>>
    /\ Cardinality(DOMAIN generators) = 2
    /\ DOMAIN triples # {}

\* C25: every id in the mine queue is the id of a triple in the completed pool
\* and is queued at most once, hence my_len() <= len().
C25_MineWithinPool ==
    /\ Range(mine) \subseteq DOMAIN triples
    /\ \A id \in TripleId : Count(mine, id) <= 1
    /\ my_len <= len

\* C26: whenever my_len() >= 2, take_mine_twice() returns Some with two
\* triples.
C26_TwoMineSuffice ==
    [][ (last'.op = "take_mine_twice" /\ my_len >= 2) =>
          /\ last'.ret = "Some"
          /\ Len(last'.out) = 2
      ]_vars

\* C27: every send action the driver of a generator that did not fail emitted
\* during poke() is handed to the caller in the result of that poke(), also
\* when another generator failed in it: a message for the peer of a private
\* send, and one for every other participant of a broadcast.
C27_NoMessageLost ==
    last.op = "poke" =>
        \A k \in 1 .. Len(last.acts) :
           LET a == last.acts[k] IN
           a.id \notin last.failed =>
              /\ a.action.type = "SendPrivate" =>
                    \E i \in 1 .. Len(last.msgs) :
                        last.msgs[i] = Outbound(a.action.to, a.id, a.action.data)
              /\ a.action.type = "SendMany" =>
                    \A p \in Range(participants) \ {me} :
                       \E i \in 1 .. Len(last.msgs) :
                           last.msgs[i] = Outbound(p, a.id, a.action.data)

\* C28: across the nodes, under any interleaving of generate(), message delivery
\* and poke(): no triple id is in the mine queue of two nodes, and on every
\* node a completed triple is in the mine queue exactly when the generator
\* that produced it was started by generate() on that node, never when the
\* node joined through get_or_generate().
C28_MineOnInitiatorOnly ==
    \A id \in TripleId :
       /\ Cardinality({n \in Nodes : id \in Range(nodes[n].mine)}) <= 1
       /\ \A n \in Nodes :
            id \in DOMAIN nodes[n].triples =>
               (id \in Range(nodes[n].mine)
                    <=> nodes[n].triples[id].output = Output(TRUE))

=============================================================================
